---- MODULE Spec2Model ----
(***************************************************************************)
(* Model of package retry (tiagomelo/go-retry): the retry loop Do, its     *)
(* helpers attemptRetry, shouldStopRetry, checkFatal, EndRetry and         *)
(* capDelay, and the four backoff strategies.                              *)
(*                                                                         *)
(* An error value is modelled by its Unwrap chain, outermost layer first:  *)
(*   <<>>            the nil error                                         *)
(*   <<"a">>         errors.New("a")                                       *)
(*   <<"W","a">>     fmt.Errorf("...%w", errors.New("a"))                  *)
(*   <<"F","a">>     EndRetry(errors.New("a"))      (&fatal{cause: a})     *)
(*   <<"F">>         EndRetry(nil)                  (&fatal{cause: nil})   *)
(* so that Unwrap is Tail and wrapping is prepending a layer.              *)
(***************************************************************************)
EXTENDS Integers, Sequences, FiniteSets, TLC

\* ---------------------------------------------------------------- bounds
MaxBudget == 3      \* largest finite attempt budget explored
MaxCalls  == 3      \* invocations explored when the budget is unlimited
MaxDepth  == 3      \* longest error chain the operation returns
BaseUnit  == 1      \* retryDelay of the explored strategies
CapUnit   == 2      \* maxDelay of the explored strategies
DurBits   == 8      \* scaled width of time.Duration (int64 in the source)
MaxDur    == 4      \* capDelay is tried on durations -MaxDur..MaxDur
MaxProbe  == 10     \* attempt indices 0..MaxProbe-1 are passed to GetDelay

\* ------------------------------------------------------- program constants
Unlimited == -1     \* maxAttempts == -1 means infinite retries

\* ------------------------------------------------------------ error values
Nil == <<>>

\* Messages of the plain errors (errors.New) the operation returns.
Msgs == {"a"}

SeqsUpTo(S, n) == UNION {[1..k -> S] : k \in 0..n}

\* Chains the operation can return: wrapping layers, then either a plain
\* error or a fatal wrapper whose cause is nil.
Errors ==
    {Nil} \cup
    {e \in SeqsUpTo({"W", "F"} \cup Msgs, MaxDepth) :
        /\ Len(e) >= 1
        /\ \A i \in 1..(Len(e) - 1) : e[i] \in {"W", "F"}
        /\ e[Len(e)] \in Msgs \cup {"F"}}

\* func EndRetry(err error) error { return &fatal{cause: err} }
EndRetry(err) == <<"F">> \o err

\* func (f *fatal) Unwrap() error { return f.cause }; also the Unwrap of a
\* %w layer.  Defined on non-nil errors.
Unwrap(err) == Tail(err)

\* errors.As(err, &fatalErr) with fatalErr of type *fatal: walks the chain
\* from the outermost layer and stops at the first layer whose dynamic type
\* is *fatal; the result is that layer (with everything it wraps), or Nil
\* when the chain ends without one (As returns false).
RECURSIVE errorsAs_first(_)
errorsAs_first(err) ==
    IF err = Nil THEN Nil
    ELSE IF Head(err) = "F" THEN err
    ELSE errorsAs_first(Unwrap(err))

\* mutant: a single-level type assertion instead of the chain walk
errorsAs_toponly(err) ==
    IF err # Nil /\ Head(err) = "F" THEN err ELSE Nil

errorsAs(err) == errorsAs_first(err)

\* mutant: returns the wrapper it found instead of what it wraps
checkFatal_wrapper(err) ==
    LET fatalErr == errorsAs(err)
    IN  IF fatalErr # Nil THEN fatalErr ELSE Nil

\* func checkFatal(err error) error: the cause held by the first fatal
\* wrapper of the chain, nil when there is none.  A wrapper whose cause is
\* nil therefore also yields nil.
checkFatal(err) ==
    LET fatalErr == errorsAs(err)
    IN  IF fatalErr # Nil THEN Unwrap(fatalErr) ELSE Nil

\* ------------------------------------------------------------- durations
Pow2(n) == 2 ^ n

\* A product or shift result reduced to the signed DurBits-wide range, as
\* Go's fixed-width integer arithmetic does.
ToDuration(x) ==
    LET m == x % Pow2(DurBits)
    IN  IF m >= Pow2(DurBits - 1) THEN m - Pow2(DurBits) ELSE m

\* mutant: >= in the test of max, a zero max caps instead of disabling
capDelay_zero(delay, max) ==
    IF max >= 0 /\ delay > max THEN max ELSE delay

\* func capDelay(delay, max time.Duration) time.Duration
capDelay(delay, max) ==
    IF max > 0 /\ delay > max THEN max ELSE delay

\* 1 << attempt on a fixed-width int: 0 once every bit is shifted out.
Shl1(attempt) ==
    IF attempt >= DurBits THEN 0 ELSE ToDuration(Pow2(attempt))

Kinds == {"linear", "exponential", "randomized", "constant"}

\* mutant: the linear and exponential delays are returned uncapped
GetDelay_nocap(b, attempt, draw) ==
    CASE b.kind = "linear" ->
            ToDuration(ToDuration(attempt) * b.retryDelay)
      [] b.kind = "exponential" ->
            ToDuration(Shl1(attempt) * b.retryDelay)
      [] b.kind = "randomized" ->
            capDelay(ToDuration(ToDuration(draw) * b.retryDelay), b.maxDelay)
      [] b.kind = "constant" ->
            b.retryDelay

\* GetDelay of each strategy; draw is the value of b.rand.Intn(attempt+1)
\* and is read by the randomized strategy only.
GetDelay(b, attempt, draw) ==
    CASE b.kind = "linear" ->
            capDelay(ToDuration(ToDuration(attempt) * b.retryDelay), b.maxDelay)
      [] b.kind = "exponential" ->
            capDelay(ToDuration(Shl1(attempt) * b.retryDelay), b.maxDelay)
      [] b.kind = "randomized" ->
            capDelay(ToDuration(ToDuration(draw) * b.retryDelay), b.maxDelay)
      [] b.kind = "constant" ->
            b.retryDelay

\* rand.Intn(n) returns a value of [0, n).
Intn(n) == 0..(n - 1)

\* The draws GetDelay(attempt) can make: one per value of Intn for the
\* randomized strategy, a single unused one otherwise.
Draws(b, attempt) ==
    IF b.kind = "randomized" THEN Intn(attempt + 1) ELSE {0}

GetAttempts(b) == b.attempts

Budgets == {-2, Unlimited} \cup (0..MaxBudget)

\* NewLinearBackoff, NewExponentialBackoff, NewRandomizedBackoff,
\* NewConstantBackoff (a constant strategy has no maxDelay; the field is
\* kept at 0 and never read).
Strategies ==
    {[kind |-> k, retryDelay |-> BaseUnit,
      maxDelay |-> IF k = "constant" THEN 0 ELSE CapUnit,
      attempts |-> n] : k \in Kinds, n \in Budgets}

\* mutant: equality instead of >=, never true once the counter is past the
\* budget (budgets below 1)
shouldStopRetry_equal(att, maxAtt) ==
    maxAtt # Unlimited /\ att = maxAtt

\* mutant: the test of the -1 sentinel is missing
shouldStopRetry_nosentinel(att, maxAtt) ==
    att >= maxAtt

\* mutant: off by one, stops one attempt late
shouldStopRetry_late(att, maxAtt) ==
    maxAtt # Unlimited /\ att > maxAtt

\* func shouldStopRetry(attempts, maxAttempts int) bool
shouldStopRetry(att, maxAtt) ==
    maxAtt # Unlimited /\ att >= maxAtt

\* ------------------------------------------------------------------ state
VARIABLES
    rs,           \* the strategy passed to Do
    pc,           \* position of Do: entry, loop, call, classify, done
    maxAttempts,  \* Do's local maxAttempts
    attempts,     \* Do's named result attempts, used as the loop counter
    err,          \* Do's named result err
    results,      \* what each invocation of f returned, in order
    sleeps,       \* each time.Sleep made: [attempt, delay]
    ret,          \* what Do returned: [attempts, err, by]
    f,            \* the operation passed to Do: the values its calls can return
    peer,         \* the locals of a second, suspended call of Do, if any
    probe         \* the locals of the tests calling capDelay and GetDelay

vars == <<rs, pc, maxAttempts, attempts, err, results, sleeps, ret,
          f, peer, probe>>

NoRet == [attempts |-> 0, err |-> Nil, by |-> "none"]

\* No second call of Do.
NoPeer == [id |-> 2, pc |-> "none"]

\* No test running.
NoProbe == [op |-> "none"]

Last(s) == s[Len(s)]

Init ==
    /\ rs \in Strategies
    /\ pc = "entry"
    /\ maxAttempts = 0
    /\ attempts = 0
    /\ err = Nil
    /\ results = <<>>
    /\ sleeps = <<>>
    /\ ret = NoRet
    /\ f = Errors
    /\ peer = NoPeer
    /\ probe = NoProbe

\* maxAttempts := rs.GetAttempts()
Enter ==
    /\ pc = "entry"
    /\ maxAttempts' = GetAttempts(rs)
    /\ pc' = "loop"
    /\ UNCHANGED <<f, peer, probe, rs, attempts, err, results, sleeps, ret>>

\* mutant: the attempts > 0 test is missing, Do also sleeps before the
\* first invocation
Sleep_first ==
    /\ pc = "loop"
    /\ \E draw \in Draws(rs, attempts) :
          sleeps' = Append(sleeps, [attempt |-> attempts,
                                    delay |-> GetDelay(rs, attempts, draw)])
    /\ pc' = "call"
    /\ UNCHANGED <<f, peer, probe, rs, maxAttempts, attempts, err, results, ret>>

\* attemptRetry, first half: if attempts > 0 { time.Sleep(rs.GetDelay(attempts)) }
Sleep ==
    /\ pc = "loop"
    /\ attempts > 0
    /\ \E draw \in Draws(rs, attempts) :
          sleeps' = Append(sleeps, [attempt |-> attempts,
                                    delay |-> GetDelay(rs, attempts, draw)])
    /\ pc' = "call"
    /\ UNCHANGED <<f, peer, probe, rs, maxAttempts, attempts, err, results, ret>>

\* attemptRetry, second half: return f(), assigned to err by Do.  The
\* operation is the caller's: each invocation may return any value of f.
Invoke ==
    /\ \/ pc = "call"
       \/ pc = "loop" /\ attempts = 0
    /\ Len(results) < MaxCalls
    /\ \E r \in f :
          /\ err' = r
          /\ results' = Append(results, r)
    /\ pc' = "classify"
    /\ UNCHANGED <<f, peer, probe, rs, maxAttempts, attempts, sleeps, ret>>

\* mutant: reports the counter without the invocation just made
ReturnSuccess_uncounted ==
    /\ pc = "classify"
    /\ err = Nil
    /\ ret' = [attempts |-> attempts, err |-> Nil, by |-> "success"]
    /\ pc' = "done"
    /\ UNCHANGED <<f, peer, probe, rs, maxAttempts, attempts, err, results, sleeps>>

\* if err = attemptRetry(...); err == nil { return attempts + 1, nil }
ReturnSuccess ==
    /\ pc = "classify"
    /\ err = Nil
    /\ ret' = [attempts |-> attempts + 1, err |-> Nil, by |-> "success"]
    /\ pc' = "done"
    /\ UNCHANGED <<f, peer, probe, rs, maxAttempts, attempts, err, results, sleeps>>

\* mutant: reports the counter without the invocation just made
ReturnFatal_uncounted ==
    /\ pc = "classify"
    /\ err # Nil
    /\ checkFatal(err) # Nil
    /\ ret' = [attempts |-> attempts, err |-> checkFatal(err), by |-> "fatal"]
    /\ pc' = "done"
    /\ UNCHANGED <<f, peer, probe, rs, maxAttempts, attempts, err, results, sleeps>>

\* if fatalErr := checkFatal(err); fatalErr != nil { return attempts + 1, fatalErr }
ReturnFatal ==
    /\ pc = "classify"
    /\ err # Nil
    /\ checkFatal(err) # Nil
    /\ ret' = [attempts |-> attempts + 1, err |-> checkFatal(err), by |-> "fatal"]
    /\ pc' = "done"
    /\ UNCHANGED <<f, peer, probe, rs, maxAttempts, attempts, err, results, sleeps>>

\* attempts++; shouldStopRetry is false: next iteration of the loop
Retry ==
    /\ pc = "classify"
    /\ err # Nil
    /\ checkFatal(err) = Nil
    /\ attempts' = attempts + 1
    /\ ~shouldStopRetry(attempts', maxAttempts)
    /\ pc' = "loop"
    /\ UNCHANGED <<f, peer, probe, rs, maxAttempts, err, results, sleeps, ret>>

\* mutant: the break is missing, the loop goes on
Exhausted_nobreak ==
    /\ pc = "classify"
    /\ err # Nil
    /\ checkFatal(err) = Nil
    /\ attempts' = attempts + 1
    /\ shouldStopRetry(attempts', maxAttempts)
    /\ pc' = "loop"
    /\ UNCHANGED <<f, peer, probe, rs, maxAttempts, err, results, sleeps, ret>>

\* mutant: the exhausted return drops the error
Exhausted_swallow ==
    /\ pc = "classify"
    /\ err # Nil
    /\ checkFatal(err) = Nil
    /\ attempts' = attempts + 1
    /\ shouldStopRetry(attempts', maxAttempts)
    /\ ret' = [attempts |-> attempts', err |-> Nil, by |-> "exhausted"]
    /\ pc' = "done"
    /\ UNCHANGED <<f, peer, probe, rs, maxAttempts, err, results, sleeps>>

\* mutant: the loop also gives up once the delay slept has reached the
\* strategy's max delay
Exhausted_atCap ==
    /\ pc = "classify"
    /\ err # Nil
    /\ checkFatal(err) = Nil
    /\ attempts' = attempts + 1
    /\ \/ shouldStopRetry(attempts', maxAttempts)
       \/ sleeps # <<>> /\ Last(sleeps).delay >= rs.maxDelay
    /\ ret' = [attempts |-> attempts', err |-> err, by |-> "exhausted"]
    /\ pc' = "done"
    /\ UNCHANGED <<f, peer, probe, rs, maxAttempts, err, results, sleeps>>

\* attempts++; shouldStopRetry is true: break; return attempts, err
Exhausted ==
    /\ pc = "classify"
    /\ err # Nil
    /\ checkFatal(err) = Nil
    /\ attempts' = attempts + 1
    /\ shouldStopRetry(attempts', maxAttempts)
    /\ ret' = [attempts |-> attempts', err |-> err, by |-> "exhausted"]
    /\ pc' = "done"
    /\ UNCHANGED <<f, peer, probe, rs, maxAttempts, err, results, sleeps>>

Next ==
    \/ Enter
    \/ Sleep
    \/ Invoke
    \/ ReturnSuccess
    \/ ReturnFatal
    \/ Retry
    \/ Exhausted

Spec == Init /\ [][Next]_vars

\* One operation result of each kind Do tells apart: nil, a plain and a
\* wrapped retryable error, a fatal wrapper of an error, of nil, and one
\* under a wrapping layer.
LiveOutcomes ==
    {Nil, <<"a">>, <<"W", "a">>, EndRetry(<<"a">>), EndRetry(Nil),
     <<"W", "F", "a">>}

\* A call of Do whose operation returns these results.
FairInit ==
    /\ rs \in Strategies
    /\ pc = "entry"
    /\ maxAttempts = 0
    /\ attempts = 0
    /\ err = Nil
    /\ results = <<>>
    /\ sleeps = <<>>
    /\ ret = NoRet
    /\ f = LiveOutcomes
    /\ peer = NoPeer
    /\ probe = NoProbe

\* Every call of the operation and every sleep completes, and Do is never
\* suspended for ever: a step that can be taken is eventually taken.
FairSpec == FairInit /\ [][Next]_vars /\ WF_vars(Next)

\* ------------------------------------------------- two calls of Do
\* The locals (parameters, named results, position) of the running call,
\* as they are set aside when the other call runs.  peer.id names the
\* suspended call, 1 or 2.
Locals ==
    [id |-> 3 - peer.id, rs |-> rs, pc |-> pc, maxAttempts |-> maxAttempts,
     attempts |-> attempts, err |-> err, results |-> results,
     sleeps |-> sleeps, ret |-> ret]

\* A call of Do that has not taken a step yet.
FreshCall(i, b) ==
    [id |-> i, rs |-> b, pc |-> "entry", maxAttempts |-> 0, attempts |-> 0,
     err |-> Nil, results |-> <<>>, sleeps |-> <<>>, ret |-> NoRet]

\* What the operations of the two calls return: nil, a retryable error and
\* a fatal one.
PairOutcomes == {Nil, <<"a">>, EndRetry(<<"a">>)}

\* Two calls of Do, each with its strategy (the same value when they share
\* one instance: the strategies are passed by value) and the same budget.
PairInit ==
    /\ rs \in Strategies
    /\ pc = "entry"
    /\ maxAttempts = 0
    /\ attempts = 0
    /\ err = Nil
    /\ results = <<>>
    /\ sleeps = <<>>
    /\ ret = NoRet
    /\ f = PairOutcomes
    /\ \E b \in Strategies :
          /\ GetAttempts(b) = GetAttempts(rs)
          /\ peer = FreshCall(2, b)
    /\ probe = NoProbe

\* mutant: the attempt counter is one variable shared by the two calls
Switch_sharedCounter ==
    /\ peer.pc # "none"
    /\ peer' = Locals
    /\ rs' = peer.rs
    /\ pc' = peer.pc
    /\ maxAttempts' = peer.maxAttempts
    /\ err' = peer.err
    /\ results' = peer.results
    /\ sleeps' = peer.sleeps
    /\ ret' = peer.ret
    /\ UNCHANGED <<attempts, f, probe>>

\* The scheduler suspends the running call of Do and resumes the other:
\* each call has its own rs, maxAttempts, attempts and err.
Switch ==
    /\ peer.pc # "none"
    /\ peer' = Locals
    /\ rs' = peer.rs
    /\ pc' = peer.pc
    /\ maxAttempts' = peer.maxAttempts
    /\ attempts' = peer.attempts
    /\ err' = peer.err
    /\ results' = peer.results
    /\ sleeps' = peer.sleeps
    /\ ret' = peer.ret
    /\ UNCHANGED <<f, probe>>

PairNext ==
    \/ Next
    \/ Switch

PairSpec == PairInit /\ [][PairNext]_vars

\* ------------------------------------------------- capDelay on its own
\* No call of Do in progress.
DoIdle ==
    /\ pc = "idle"
    /\ maxAttempts = 0
    /\ attempts = 0
    /\ err = Nil
    /\ results = <<>>
    /\ sleeps = <<>>
    /\ ret = NoRet
    /\ f = {}
    /\ peer = NoPeer

doVars == <<rs, pc, maxAttempts, attempts, err, results, sleeps, ret, f, peer>>

NoStrategy == [kind |-> "none", retryDelay |-> 0, maxDelay |-> 0, attempts |-> 0]

Durations == (0 - MaxDur)..MaxDur

\* A test case of TestCapDelay: tt.delay and tt.max, any two durations.
CapInit ==
    /\ DoIdle
    /\ rs = NoStrategy
    /\ probe \in {[op |-> "capDelay", at |-> "start", delay |-> d, max |-> m,
                    actual |-> 0, again |-> 0] : d \in Durations, m \in Durations}

\* actual := capDelay(tt.delay, tt.max)
CapDelayCall ==
    /\ probe.op = "capDelay"
    /\ probe.at = "start"
    /\ probe' = [probe EXCEPT !.at = "called",
                              !.actual = capDelay(probe.delay, probe.max)]
    /\ UNCHANGED doVars

\* capDelay applied to its own result, with the same max
CapDelayAgain ==
    /\ probe.op = "capDelay"
    /\ probe.at = "called"
    /\ probe' = [probe EXCEPT !.at = "twice",
                              !.again = capDelay(probe.actual, probe.max)]
    /\ UNCHANGED doVars

CapNext ==
    \/ CapDelayCall
    \/ CapDelayAgain

CapSpec == CapInit /\ [][CapNext]_vars

\* ------------------------------------------------- GetDelay on its own
\* Base delays tried: negative, zero, small, and a quarter of the duration
\* range.
ProbeBases == {-1, 0, 1, 3, Pow2(DurBits - 2)}

\* Max delays tried: negative and zero (capping disabled), small, and the
\* largest duration.
ProbeCaps == {-1, 0, 2, 5, Pow2(DurBits - 1) - 1}

\* The strategies of TestBackoffImplementations, over these delays.
ProbeStrategies ==
    {[kind |-> k, retryDelay |-> d, maxDelay |-> m, attempts |-> MaxProbe] :
        k \in Kinds \ {"constant"}, d \in ProbeBases, m \in ProbeCaps}
    \cup
    {[kind |-> "constant", retryDelay |-> d, maxDelay |-> 0,
      attempts |-> MaxProbe] : d \in ProbeBases}

\* for i := 0; ...: no call of GetDelay made yet
ProbeInit ==
    /\ DoIdle
    /\ rs \in ProbeStrategies
    /\ probe = [op |-> "GetDelay", at |-> "start", i |-> 0,
                draw |-> 0, delay |-> 0, prev |-> 0]

\* i < tt.strategy.GetAttempts(); delay := tt.strategy.GetDelay(i); i++
\* probe.i is the loop variable, probe.delay the delay of the call just
\* made (index probe.i - 1), probe.prev the delay of the call before it.
GetDelayCall ==
    /\ probe.op = "GetDelay"
    /\ probe.i < GetAttempts(rs)
    /\ \E d \in Draws(rs, probe.i) :
          probe' = [probe EXCEPT !.at = "called",
                                 !.i = probe.i + 1,
                                 !.draw = d,
                                 !.delay = GetDelay(rs, probe.i, d),
                                 !.prev = probe.delay]
    /\ UNCHANGED doVars

ProbeNext == GetDelayCall

ProbeSpec == ProbeInit /\ [][ProbeNext]_vars

\* ------------------------------------------------- vocabulary of the claims
\* A retryable error: not nil, and no fatal wrapper anywhere in its chain.
Retryable(e) == e # Nil /\ \A i \in 1..Len(e) : e[i] # "F"

\* The invocations before the j-th all returned retryable errors.
PriorRetryable(j) == \A i \in 1..(j - 1) : Retryable(results[i])

\* Every invocation made so far returned a retryable error.
AllRetryable == PriorRetryable(Len(results) + 1)

\* e is itself a fatal wrapper, the value of a call of EndRetry.
IsWrapper(e) == e # Nil /\ Head(e) = "F"

HasFatal(e) == \E i \in 1..Len(e) : e[i] = "F"

\* What the outermost fatal wrapper of the chain e wraps.
FirstFatalCause(e) ==
    LET i == CHOOSE n \in 1..Len(e) :
                 e[n] = "F" /\ \A k \in 1..(n - 1) : e[k] # "F"
    IN  SubSeq(e, i + 1, Len(e))

Max(a, b) == IF a >= b THEN a ELSE b

\* Do made its j-th invocation and no other one after it, and is either
\* about to return or has returned.
StoppedAt(j) == Len(results) = j /\ pc \in {"classify", "done"}

\* C1: with a budget n >= 1 and an operation whose every call returned a
\* retryable error, Do never makes more than n invocations, and when it
\* returns it has made exactly n, returns attempts = n and returns the error
\* of the n-th invocation.
C1_Exhaustion ==
    (rs.attempts >= 1 /\ AllRetryable) =>
        /\ Len(results) <= rs.attempts
        /\ pc = "done" =>
              /\ Len(results) = rs.attempts
              /\ ret.attempts = rs.attempts
              /\ ret.err = Last(results)

C1_Witness ==
    /\ pc = "done"
    /\ rs.attempts = 3
    /\ AllRetryable
    /\ results[1] # results[3]
    /\ ret = [attempts |-> 3, err |-> results[3], by |-> "exhausted"]

\* C2: when calls 1..k-1 returned retryable errors and call k returned nil,
\* under budget -1 or a finite budget n >= k, call k is the last invocation
\* and Do returns attempts = k with a nil error.
C2_SuccessOnKth ==
    \A k \in 1..Len(results) :
        ( /\ results[k] = Nil
          /\ PriorRetryable(k)
          /\ (rs.attempts = Unlimited \/ rs.attempts >= k) ) =>
            /\ StoppedAt(k)
            /\ pc = "done" => (ret.attempts = k /\ ret.err = Nil)

C2_Witness ==
    /\ pc = "done"
    /\ rs.attempts = Unlimited
    /\ Len(results) = 3
    /\ PriorRetryable(3)
    /\ results[3] = Nil
    /\ ret = [attempts |-> 3, err |-> Nil, by |-> "success"]

\* C3: when calls 1..j-1 returned retryable errors and call j returned
\* EndRetry(cause) for an error cause, call j is the last invocation and Do
\* returns attempts = j and the cause itself, whatever the budget.
C3_FatalShortCircuit ==
    \A j \in 1..Len(results) :
        ( /\ IsWrapper(results[j])
          /\ Tail(results[j]) # Nil
          /\ PriorRetryable(j) ) =>
            /\ StoppedAt(j)
            /\ pc = "done" =>
                  (ret.attempts = j /\ ret.err = Tail(results[j]))

C3_Witness ==
    /\ pc = "done"
    /\ rs.attempts = 3
    /\ Len(results) = 2
    /\ Retryable(results[1])
    /\ results[2] = EndRetry(<<"a">>)
    /\ ret = [attempts |-> 2, err |-> <<"a">>, by |-> "fatal"]

\* C4: for every value of EndRetry the operation returns, a nil cause and an
\* already fatal cause included, that invocation is the last one and Do
\* returns by the fatal path an error that is not a fatal wrapper.
C4_WrapperAlwaysEnds ==
    \A j \in 1..Len(results) :
        IsWrapper(results[j]) =>
            /\ StoppedAt(j)
            /\ pc = "done" =>
                  (ret.by = "fatal" /\ ret.attempts = j /\ ~IsWrapper(ret.err))

\* C5: an error that holds EndRetry(cause), for an error cause, under one or
\* more wrapping layers ends the session at that invocation with the cause
\* returned; an error with no fatal wrapper in its chain never makes Do
\* return by the fatal path.
C5_ChainWalk ==
    \A j \in 1..Len(results) :
        LET e == results[j]
        IN  /\ \A i \in 2..(Len(e) - 1) :
                  (e[i] = "F" /\ \A k \in 1..(i - 1) : e[k] = "W") =>
                      /\ StoppedAt(j)
                      /\ pc = "done" =>
                            /\ ret.by = "fatal"
                            /\ ret.attempts = j
                            /\ ret.err = SubSeq(e, i + 1, Len(e))
            /\ (Retryable(e) /\ Len(results) = j) => ret.by # "fatal"

C5_Witness ==
    /\ pc = "done"
    /\ Len(results) = 2
    /\ results[2] = <<"W", "F", "a">>
    /\ ret = [attempts |-> 2, err |-> <<"a">>, by |-> "fatal"]

\* shouldStopRetry has returned true, or the last invocation returned nil
\* or an error that checkFatal classifies as fatal.
StopSeen ==
    \/ attempts >= 1 /\ shouldStopRetry(attempts, maxAttempts)
    \/ /\ results # <<>>
       /\ \/ Last(results) = Nil
          \/ checkFatal(Last(results)) # Nil

\* C6: once the budget check has stopped the loop, or an invocation returned
\* nil or an error classified as fatal, no step invokes the operation and no
\* step sleeps.
C6_NothingAfterStop ==
    [][StopSeen => (results' = results /\ sleeps' = sleeps)]_vars

C6_Witness ==
    /\ StopSeen
    /\ pc = "done"
    /\ ret.by = "exhausted"
    /\ rs.attempts = 2
    /\ Len(results) = 2
    /\ Len(sleeps) = 1

\* C7: no step decreases the attempt counter, and every step that returns
\* from Do returns as attempts the number of invocations made, at least 1.
C7_AttemptAccounting ==
    [][ /\ attempts' >= attempts
        /\ pc' = "done" =>
              (ret'.attempts = Len(results') /\ ret'.attempts >= 1) ]_vars

C7_Witness ==
    /\ pc = "done"
    /\ ret.by = "fatal"
    /\ attempts = 2
    /\ ret.attempts = 3
    /\ Len(results) = 3

\* C8 as stated: under every budget n other than -1, n = 0 included, Do
\* makes at most n invocations.  (Stated for n >= 0: no count of
\* invocations is below a negative budget.)
C8_AtMostBudget ==
    (rs.attempts # Unlimited /\ rs.attempts >= 0) =>
        Len(results) <= rs.attempts

\* C8 amended: under every budget n other than -1 Do makes at most n
\* invocations when n >= 1 and at most one when n <= 0 (the first
\* invocation is made before the budget is looked at).
C8_AtMostBudgetOrOne ==
    rs.attempts # Unlimited => Len(results) <= Max(rs.attempts, 1)

C8_Witness ==
    /\ pc = "done"
    /\ rs.attempts = 0
    /\ Len(results) = 1
    /\ ret.by = "exhausted"

\* C9 as stated: with budget n >= 0 and an operation that always fails
\* retryably Do makes the initial invocation and n retries, n + 1
\* invocations.
C9_RetriesAfterInitial ==
    (pc = "done" /\ rs.attempts >= 0 /\ AllRetryable) =>
        (Len(results) = rs.attempts + 1 /\ Len(sleeps) = rs.attempts)

\* C9 amended: the budget counts the initial attempt.  With budget n >= 1
\* and an operation that always fails retryably Do makes the initial
\* invocation and n - 1 retries, n invocations; with budget 0 it makes the
\* initial invocation and no retry.
C9_BudgetCountsInitial ==
    (pc = "done" /\ rs.attempts >= 0 /\ AllRetryable) =>
        /\ Len(results) = Max(rs.attempts, 1)
        /\ Len(sleeps) = Max(rs.attempts, 1) - 1

C9_Witness ==
    /\ pc = "done"
    /\ rs.attempts = 2
    /\ AllRetryable
    /\ Len(results) = 2
    /\ Len(sleeps) = 1

\* C10: Do returns a nil error exactly when its last invocation returned
\* nil; otherwise it returns the error of the last invocation on the
\* exhausted path, or what the outermost fatal wrapper of that error wraps
\* on the fatal path.
C10_NeverSwallows ==
    pc = "done" =>
        LET r == Last(results)
        IN  /\ ret.err = Nil <=> r = Nil
            /\ r # Nil =>
                  \/ ret.by = "exhausted" /\ ret.err = r
                  \/ ret.by = "fatal" /\ HasFatal(r) /\ ret.err = FirstFatalCause(r)

C10_Witness ==
    /\ pc = "done"
    /\ ret.by = "exhausted"
    /\ Last(results) = EndRetry(Nil)
    /\ ret.err = EndRetry(Nil)

\* C11: under every budget other than -1, whatever the operation returns,
\* and with every call and sleep completing, Do eventually returns, by
\* success, by fatal classification or by exhaustion.
C11_Terminates ==
    (rs.attempts # Unlimited) ~>
        (pc = "done" /\ ret.by \in {"success", "fatal", "exhausted"})

C11_Witness ==
    /\ pc = "done"
    /\ rs.attempts = 3
    /\ Len(results) = 3
    /\ ret.by = "success"

\* The delays GetDelay(i) of strategy b can return.
DelaysOf(b, i) == {GetDelay(b, i, d) : d \in Draws(b, i)}

\* C12: Do does not sleep before the first invocation; the i-th sleep is
\* the one call GetDelay(i), of that duration, and comes after invocation i
\* and before invocation i+1, so sleeps and invocations alternate, the
\* indices are 1, 2, 3, ... and Do returns with one sleep less than
\* invocations.
C12_DelayOrdering ==
    /\ results = <<>> => sleeps = <<>>
    /\ results # <<>> =>
          /\ Len(sleeps) \in {Len(results) - 1, Len(results)}
          /\ Len(sleeps) = Len(results) <=> pc = "call"
    /\ \A i \in 1..Len(sleeps) :
          /\ sleeps[i].attempt = i
          /\ sleeps[i].delay \in DelaysOf(rs, i)
    /\ pc = "done" => Len(sleeps) = Len(results) - 1

C12_Witness ==
    /\ pc = "done"
    /\ rs.kind = "linear"
    /\ Len(results) = 3
    /\ sleeps = << [attempt |-> 1, delay |-> BaseUnit],
                   [attempt |-> 2, delay |-> CapUnit] >>

\* C13: capDelay(delay, max) is delay when max <= 0 or delay <= max and is
\* max otherwise, for all durations, zero and negative ones included; so
\* the result is at most max whenever max > 0, and capping the result again
\* with the same max changes nothing.
C13_CapDelay ==
    (probe.op = "capDelay" /\ probe.at \in {"called", "twice"}) =>
        /\ (probe.max <= 0 \/ probe.delay <= probe.max) =>
              probe.actual = probe.delay
        /\ ~(probe.max <= 0 \/ probe.delay <= probe.max) =>
              probe.actual = probe.max
        /\ probe.max > 0 => probe.actual <= probe.max
        /\ probe.at = "twice" => probe.again = probe.actual

C13_Witness ==
    /\ probe.op = "capDelay"
    /\ probe.at = "twice"
    /\ probe.delay = 3
    /\ probe.max = 2
    /\ probe.actual = 2
    /\ probe.again = 2

\* A call of GetDelay has been made; its attempt index.
Probed == probe.op = "GetDelay" /\ probe.at = "called"

ProbedIndex == probe.i - 1

\* C14: at every attempt index 0..attempts-1 the linear, exponential and
\* randomized delays are at most the max delay when that is > 0 (for every
\* random draw), and the constant delay is exactly the base delay.
C14_WithinMax ==
    Probed =>
        /\ (rs.kind \in {"linear", "exponential", "randomized"}
                /\ rs.maxDelay > 0) => probe.delay <= rs.maxDelay
        /\ rs.kind = "constant" => probe.delay = rs.retryDelay

C14_Witness ==
    /\ Probed
    /\ rs.kind = "exponential"
    /\ rs.retryDelay = 3
    /\ rs.maxDelay = 5
    /\ ProbedIndex = 2
    /\ probe.delay = 5

\* C15: the linear delay is capDelay(attempt x baseDelay, maxDelay), 0 at
\* attempt 0 and non-decreasing in the attempt index (stated for base
\* delays >= 0).
C15_LinearGrows ==
    (Probed /\ rs.kind = "linear" /\ rs.retryDelay >= 0) =>
        /\ probe.delay = capDelay(ProbedIndex * rs.retryDelay, rs.maxDelay)
        /\ ProbedIndex = 0 => probe.delay = 0
        /\ ProbedIndex >= 1 => probe.delay >= probe.prev

\* C16: with a base delay >= 0 the linear, exponential and randomized
\* delays are >= 0 at every attempt index, in fixed-width arithmetic.
C16_NonNegativeDelay ==
    (Probed /\ rs.kind \in {"linear", "exponential", "randomized"}
            /\ rs.retryDelay >= 0) =>
        probe.delay >= 0

\* C17: the randomized delay at attempt a is capDelay(k x baseDelay,
\* maxDelay) for the draw k, which is one of 0..a, and is at most the
\* linear delay of the same attempt, base delay and max delay (stated for
\* base delays >= 0).
C17_RandomizedBelowLinear ==
    (Probed /\ rs.kind = "randomized" /\ rs.retryDelay >= 0) =>
        /\ probe.draw \in 0..ProbedIndex
        /\ probe.delay = capDelay(probe.draw * rs.retryDelay, rs.maxDelay)
        /\ probe.delay <= GetDelay([rs EXCEPT !.kind = "linear"],
                                   ProbedIndex, 0)

\* An operation result after which a call of Do under budget n, having
\* made j invocations, makes no further one: nil, an error holding a fatal
\* wrapper of an error, or the budget reached.
StopsAt(n, res, j) ==
    \/ res[j] = Nil
    \/ HasFatal(res[j]) /\ FirstFatalCause(res[j]) # Nil
    \/ n # Unlimited /\ j >= n

\* What Do returns after the results res, when the last one stopped it.
AloneRet(res) ==
    LET j == Len(res)
        r == res[j]
    IN  IF r = Nil
        THEN [attempts |-> j, err |-> Nil, by |-> "success"]
        ELSE IF HasFatal(r) /\ FirstFatalCause(r) # Nil
        THEN [attempts |-> j, err |-> FirstFatalCause(r), by |-> "fatal"]
        ELSE [attempts |-> j, err |-> r, by |-> "exhausted"]

\* The call with locals s has done what a call running alone does with the
\* same strategy and the same operation results: it has not gone past a
\* stop, it has asked its strategy for the delays of attempts 1, 2, ... in
\* order, and if it has returned, it returned the result of a lone call.
AsAlone(s) ==
    LET res == s.results
    IN  /\ \A j \in 1..(Len(res) - 1) : ~StopsAt(s.rs.attempts, res, j)
        /\ s.pc = "done" =>
              /\ StopsAt(s.rs.attempts, res, Len(res))
              /\ s.ret = AloneRet(res)
        /\ Len(s.sleeps) <= Len(res)
        /\ res # <<>> => Len(s.sleeps) >= Len(res) - 1
        /\ \A i \in 1..Len(s.sleeps) :
              s.sleeps[i] = [attempt |-> i, delay |-> GetDelay(s.rs, i, 0)]

\* The two calls share one linear, exponential or constant strategy.
SharedStrategy ==
    /\ peer.pc # "none"
    /\ peer.rs = rs
    /\ rs.kind \in {"linear", "exponential", "constant"}

\* C18: no step of Do changes a strategy, a step of one call leaves the
\* locals of the other call as they are, and two interleaved calls that
\* share a linear, exponential or constant strategy each return the result
\* and ask for the delays of a call running alone.
C18_NoInterference ==
    /\ [](SharedStrategy => (AsAlone(Locals) /\ AsAlone(peer)))
    /\ [][ /\ {rs', peer'.rs} = {rs, peer.rs}
           /\ peer'.id = peer.id => peer' = peer ]_vars

C18_Witness ==
    /\ SharedStrategy
    /\ rs.kind = "linear"
    /\ rs.attempts = 2
    /\ pc = "done"
    /\ peer.pc = "done"
    /\ ret = [attempts |-> 2, err |-> <<"a">>, by |-> "exhausted"]
    /\ peer.ret = [attempts |-> 2, err |-> Nil, by |-> "success"]
    /\ Len(sleeps) = 1
    /\ Len(peer.sleeps) = 1

\* Call b has received, on its first invocations, the results call a
\* received on all of its invocations.
SameSoFar(a, b) ==
    /\ Len(b.results) >= Len(a.results)
    /\ SubSeq(b.results, 1, Len(a.results)) = a.results

\* Call a has returned; call b, under the same budget and given the same
\* operation results, makes no invocation more and returns the same.
SameOutcome(a, b) ==
    ( /\ a.pc = "done"
      /\ GetAttempts(a.rs) = GetAttempts(b.rs)
      /\ SameSoFar(a, b) ) =>
        /\ b.results = a.results
        /\ b.pc = "done" => b.ret = a.ret

\* C20: two runs of Do with the same budget and the same sequence of
\* operation results make the same number of invocations and return the
\* same (attempts, error), whatever their strategies' kinds, delays and
\* random draws.
C20_DeterminedByOutcomes ==
    peer.pc # "none" => (SameOutcome(Locals, peer) /\ SameOutcome(peer, Locals))

C20_Witness ==
    /\ pc = "done"
    /\ peer.pc = "done"
    /\ rs.kind = "randomized"
    /\ peer.rs.kind = "exponential"
    /\ results = peer.results
    /\ Len(results) = 3
    /\ sleeps[2].delay # peer.sleeps[2].delay
    /\ ret = peer.ret
    /\ ret.by = "exhausted"

\* C19: under budget -1, as long as every invocation returns a retryable
\* error, Do has not returned, shouldStopRetry is false of its counter and
\* the counter follows the invocations; and the invocations go on: the
\* number of invocations reaches MaxCalls, however large that is taken.
C19_UnlimitedNeverReturns ==
    /\ []( (rs.attempts = Unlimited /\ AllRetryable) =>
              /\ pc # "done"
              /\ pc # "entry" => ~shouldStopRetry(attempts, maxAttempts)
              /\ attempts >= Len(results) - 1 )
    /\ (rs.attempts = Unlimited) ~>
           (Len(results) = MaxCalls \/ ~AllRetryable)

C19_Witness ==
    /\ rs.attempts = Unlimited
    /\ AllRetryable
    /\ Len(results) = MaxCalls
    /\ attempts = MaxCalls
    /\ Len(sleeps) = MaxCalls
    /\ pc = "call"

====
